---- MODULE Spec2Model ----
(***************************************************************************)
(* Honeycomb word search (honeycomb_trie.c): main() builds the honeycomb   *)
(* from a symbol stream, builds a trie from the dictionary file and then   *)
(* runs find_words, a depth-first search that walks the honeycomb and the  *)
(* trie in lockstep.  C strings are sequences of one-character strings     *)
(* (without the terminating NUL); C index x is TLA+ index x + 1.           *)
(***************************************************************************)
EXTENDS Integers, Sequences, FiniteSets, TLC

\* ------------------------------------------------------------- bounds
\* Largest layer count of the honeycombs that are built (GridSpec).
MaxLayers == 4
\* Largest layer count of the honeycombs that are built and searched (Spec).
MaxSearchLayers == 2
\* Number of leading symbols of the honeycomb file that vary over GridLetters.
MaxVaried == 2
\* Largest dictionary file, in characters (newlines included).
MaxFileLen == 5

\* ------------------------------------------------------------- constants
ALPHABET_SIZE == 26
WORD_SIZE == 1024

Letters ==
    << "A", "B", "C", "D", "E", "F", "G", "H", "I", "J", "K", "L", "M",
       "N", "O", "P", "Q", "R", "S", "T", "U", "V", "W", "X", "Y", "Z" >>

\* CHAR_TO_INDEX(c) is c - 'A'.
CHAR_TO_INDEX(c) == (CHOOSE k \in 1..ALPHABET_SIZE : Letters[k] = c) - 1

\* The line terminator of the dictionary file.
NL == "\n"
\* The sentinel find_words_trie writes into a cell on the active path.
Visited == "-"
\* A byte of malloc'ed memory that was never written.
Uninit == "?"
\* The same for the history buffers, which hold input positions.
NoPosition == 0
\* A NULL column pointer (calloc in create_honeycomb).
NullColumn == << >>

\* Letters the honeycomb inputs and the dictionary inputs are drawn from.
GridLetters == {"A", "B"}
Filler == "C"
DictChars == {"A", "B", NL}

VARIABLES
    pc,           \* position in main()
    layers,       \* main's layers, read from the honeycomb file
    input,        \* the symbols of the honeycomb file after the layer count
    rpos,         \* number of symbols fscanf has consumed
    center,       \* fill_honeycomb: the center column being filled
    rightlayers,  \* fill_honeycomb: right half-ring strings
    leftlayers,   \* fill_honeycomb: left half-ring strings
    hc,           \* the honeycomb: [number_columns, columns]
    shadow,       \* history: for every buffer, the input position of each character
    writes,       \* history: for every column, how often each cell was written
    dict,         \* the characters of the dictionary file
    fpos,         \* number of characters fgets has consumed
    trie,         \* the trie: node id -> [next, is_end]; the root is node 1
    inserted,     \* history: the keys passed to insert_trie, in order
    store,        \* the word store
    paths,        \* history: for every stored word, the active path when it was stored
    word,         \* find_words: the word buffer
    stack,        \* the chain of active find_words_trie frames, outermost first
    fi, fj,       \* find_words: loop variables i and j
    hc0           \* history: the columns when find_words was called

vars ==
    << pc, layers, input, rpos, center, rightlayers, leftlayers, hc, shadow,
       writes, dict, fpos, trie, inserted, store, paths, word, stack, fi, fj, hc0 >>

fillVars == << layers, input, rpos, center, rightlayers, leftlayers, hc, shadow, writes >>
trieVars == << dict, fpos, trie, inserted >>
searchVars == << store, paths, word, stack, fi, fj, hc0 >>

\* ------------------------------------------------------------- helpers
Abs(x) == IF x < 0 THEN -x ELSE x

RECURSIVE SumTo(_, _)
SumTo(f, n) == IF n = 0 THEN 0 ELSE f[n] + SumTo(f, n - 1)

\* The position stream 1, 2, ..., n (what the shadow buffers are filled from).
Positions(n) == [k \in 1..n |-> k]

\* ------------------------------------------------------------- honeycomb
\* fill_honeycomb, line 186: the length of each half of ring i.
HalfLayerLen(i) == 2 + (i - 1) * 3

\* Symbols fill_honeycomb reads for ring i: the two center symbols and both halves.
RingLen(i) == 2 + 2 * HalfLayerLen(i)

\* Symbols fill_honeycomb reads in all for a honeycomb of L layers.
InputLen(L) == 1 + SumTo([i \in 1..(L - 1) |-> RingLen(i)], L - 1)

\* Well-formed honeycomb files of L layers whose symbols run through the
\* alphabet, starting at any letter: neighbouring symbols differ.
AlphabetInputs(L) ==
    { [k \in 1..InputLen(L) |-> Letters[((k + r - 1) % ALPHABET_SIZE) + 1]] :
        r \in 0..(ALPHABET_SIZE - 1) }

\* Well-formed honeycomb files of L layers for the search: the leading
\* symbols vary over GridLetters, the others are Filler.
HoneycombInputs(L) ==
    LET n == InputLen(L)
        m == IF MaxVaried < n THEN MaxVaried ELSE n
    IN { [k \in 1..n |-> IF k <= m THEN v[k] ELSE Filler] : v \in [1..m -> GridLetters] }

\* create_honeycomb: number_columns set, every column pointer NULL.
create_honeycomb(L) ==
    [number_columns |-> 2 * L - 1,
     columns |-> [c \in 1..(2 * L - 1) |-> NullColumn]]

\* fill_honeycomb lines 176-178: the buffer of the center column, its middle
\* character read from the stream.
ReadCenterBuf(stream, L, none) ==
    [p \in 1..(2 * L - 1) |-> IF p = L THEN stream[1] ELSE none]

\* Lines 191 and 201: the upper and lower center symbols of ring i.
ReadCenterRing(buf, stream, at, L, i) ==
    [buf EXCEPT ![L + i] = stream[at + 1],
                ![L - i] = stream[at + 2 + HalfLayerLen(i)]]

\* Lines 195-197: right[j] for j = halflayerlen-1 down to 0, in reading order.
ReadRight(stream, at, i) ==
    [x \in 1..HalfLayerLen(i) |-> stream[at + 2 + (HalfLayerLen(i) - x)]]

\* Lines 205-207: left[k] for k = 0 .. halflayerlen-1, in reading order.
ReadLeft(stream, at, i) ==
    [x \in 1..HalfLayerLen(i) |-> stream[at + 2 + HalfLayerLen(i) + x]]

\* A character of a layer string (C indices); reading outside the string
\* yields a byte nobody wrote.
LayerChar(ls, j, x, none) ==
    IF j + 1 \in DOMAIN ls /\ x + 1 \in DOMAIN ls[j + 1] THEN ls[j + 1][x + 1] ELSE none

\* hcomb_store line 147: strncpy(column + n - i - 1, layers[i] + i, i + 2), as
\* single-character writes <<destination offset, layer, source offset>>.
SegmentWrites(n, i) ==
    [t \in 1..(i + 2) |-> << n - i - 1 + (t - 1), i, i + (t - 1) >>]

\* EndWrites with the upper-end source offset of line 154 one too small.
RECURSIVE EndWritesShifted(_, _, _)
EndWritesShifted(n, i, j) ==
    IF j <= i THEN << >>
    ELSE << << n - j - 1, j, i >>, << n - i + j, j, 3 * j - i >> >>
         \o EndWritesShifted(n, i, j - 1)

\* hcomb_store lines 150-155: for j = n-1 down to i+1 the two writes of layer j.
RECURSIVE EndWrites(_, _, _)
EndWrites(n, i, j) ==
    IF j <= i THEN << >>
    ELSE << << n - j - 1, j, i >>, << n - i + j, j, 3 * j + 1 - i >> >>
         \o EndWrites(n, i, j - 1)

\* Every write hcomb_store makes into the column of loop index i, in order.
ColumnWrites(n, i) == SegmentWrites(n, i) \o EndWrites(n, i, n - 1)

\* ColumnLen without the column's last cell.
ColumnLenShort(n, i) == 2 * n - i - 1

\* hcomb_store line 143.
ColumnLen(n, i) == 2 * n - i

\* The writes ws applied in order to the column buffer col.
RECURSIVE ApplyWrites(_, _, _, _)
ApplyWrites(col, ws, ls, none) ==
    IF ws = << >> THEN col
    ELSE LET w == Head(ws)
             dst == w[1] + 1
         IN ApplyWrites(IF dst \in DOMAIN col
                           THEN [col EXCEPT ![dst] = LayerChar(ls, w[2], w[3], none)]
                           ELSE col,
                        Tail(ws), ls, none)

\* hcomb_store lines 143-155: the column built in iteration i.
StoreColumn(ls, n, i, none) ==
    ApplyWrites([p \in 1..ColumnLen(n, i) |-> none], ColumnWrites(n, i), ls, none)

\* How often iteration i writes each cell of its column.
WriteCounts(n, i) ==
    [p \in 1..ColumnLen(n, i) |->
        Cardinality({t \in DOMAIN ColumnWrites(n, i) : ColumnWrites(n, i)[t][1] + 1 = p})]

\* hcomb_store lines 159-163: where iteration i's column goes (C index).
ColumnSlot(n, i, right) == IF right THEN n + i + 1 ELSE n - i - 1

\* hcomb_store: the columns array after the call.
hcomb_store(cols, ls, n, right, none) ==
    [c \in DOMAIN cols |->
        IF \E i \in 0..(n - 1) : ColumnSlot(n, i, right) + 1 = c
        THEN StoreColumn(ls, n, CHOOSE i \in 0..(n - 1) : ColumnSlot(n, i, right) + 1 = c, none)
        ELSE cols[c]]

\* The write counts of the columns one hcomb_store call fills.
hcomb_counts(cnt, n, right) ==
    [c \in DOMAIN cnt |->
        IF \E i \in 0..(n - 1) : ColumnSlot(n, i, right) + 1 = c
        THEN WriteCounts(n, CHOOSE i \in 0..(n - 1) : ColumnSlot(n, i, right) + 1 = c)
        ELSE cnt[c]]

\* ------------------------------------------------------------- actions: honeycomb
\* main lines 417-419 for a honeycomb file with layer count L and symbols s:
\* the layer count is read and create_honeycomb called.
CreateFrom(L, s) ==
    /\ layers' = L
    /\ input' = s
    /\ hc' = create_honeycomb(L)
    /\ writes' = [c \in 1..(2 * L - 1) |-> << >>]
    /\ shadow' = [shadow EXCEPT !.columns = create_honeycomb(L).columns]
    /\ pc' = "fill_center"
    /\ UNCHANGED << rpos, center, rightlayers, leftlayers >>
    /\ UNCHANGED trieVars
    /\ UNCHANGED searchVars

\* main lines 417-419, the honeycomb files of the search.
CreateHoneycomb ==
    /\ pc = "main"
    /\ \E L \in 1..MaxSearchLayers : \E s \in HoneycombInputs(L) : CreateFrom(L, s)

\* main lines 417-419, the honeycomb files of GridSpec.
CreateLargeHoneycomb ==
    /\ pc = "main"
    /\ \E L \in 1..MaxLayers : \E s \in AlphabetInputs(L) : CreateFrom(L, s)

\* fill_honeycomb lines 176-178.
ReadCenter ==
    /\ pc = "fill_center"
    /\ center' = ReadCenterBuf(input, layers, Uninit)
    /\ shadow' = [shadow EXCEPT !.center = ReadCenterBuf(Positions(Len(input)), layers, NoPosition)]
    /\ writes' = [writes EXCEPT ![layers] =
                     [p \in 1..(2 * layers - 1) |-> IF p = layers THEN 1 ELSE 0]]
    /\ rpos' = 1
    /\ pc' = IF layers > 1 THEN "fill_ring" ELSE "fill_finish"
    /\ UNCHANGED << layers, input, rightlayers, leftlayers, hc >>
    /\ UNCHANGED trieVars
    /\ UNCHANGED searchVars

\* fill_honeycomb lines 185-211: one iteration of the ring loop.
ReadRing ==
    /\ pc = "fill_ring"
    /\ LET i == Len(rightlayers) + 1
           idx == Positions(Len(input))
       IN /\ i < layers
          /\ center' = ReadCenterRing(center, input, rpos, layers, i)
          /\ rightlayers' = Append(rightlayers, ReadRight(input, rpos, i))
          /\ leftlayers' = Append(leftlayers, ReadLeft(input, rpos, i))
          /\ shadow' = [shadow EXCEPT
                           !.center = ReadCenterRing(@, idx, rpos, layers, i),
                           !.right = Append(@, ReadRight(idx, rpos, i)),
                           !.left = Append(@, ReadLeft(idx, rpos, i))]
          /\ writes' = [writes EXCEPT ![layers][layers + i] = @ + 1,
                                       ![layers][layers - i] = @ + 1]
          /\ rpos' = rpos + RingLen(i)
          /\ pc' = IF i + 1 < layers THEN "fill_ring" ELSE "store_left"
    /\ UNCHANGED << layers, input, hc >>
    /\ UNCHANGED trieVars
    /\ UNCHANGED searchVars

\* fill_honeycomb line 215: hcomb_store(hc, leftlayers, layers - 1, false).
StoreLeft ==
    /\ pc = "store_left"
    /\ hc' = [hc EXCEPT !.columns = hcomb_store(@, leftlayers, layers - 1, FALSE, Uninit)]
    /\ shadow' = [shadow EXCEPT !.columns = hcomb_store(@, shadow.left, layers - 1, FALSE, NoPosition)]
    /\ writes' = hcomb_counts(writes, layers - 1, FALSE)
    /\ pc' = "store_right"
    /\ UNCHANGED << layers, input, rpos, center, rightlayers, leftlayers >>
    /\ UNCHANGED trieVars
    /\ UNCHANGED searchVars

\* fill_honeycomb line 216: hcomb_store(hc, rightlayers, layers - 1, true).
StoreRight ==
    /\ pc = "store_right"
    /\ hc' = [hc EXCEPT !.columns = hcomb_store(@, rightlayers, layers - 1, TRUE, Uninit)]
    /\ shadow' = [shadow EXCEPT !.columns = hcomb_store(@, shadow.right, layers - 1, TRUE, NoPosition)]
    /\ writes' = hcomb_counts(writes, layers - 1, TRUE)
    /\ pc' = "fill_finish"
    /\ UNCHANGED << layers, input, rpos, center, rightlayers, leftlayers >>
    /\ UNCHANGED trieVars
    /\ UNCHANGED searchVars

\* fill_honeycomb line 224: the center buffer becomes column layers - 1.
FinishFill ==
    /\ pc = "fill_finish"
    /\ hc' = [hc EXCEPT !.columns[layers] = center]
    /\ shadow' = [shadow EXCEPT !.columns[layers] = shadow.center]
    /\ pc' = "open_dictionary"
    /\ UNCHANGED << layers, input, rpos, center, rightlayers, leftlayers, writes >>
    /\ UNCHANGED trieVars
    /\ UNCHANGED searchVars

\* ------------------------------------------------------------- trie
\* get_trienode without line 57: the flag of a new node is set.
get_trienode_flagged == [next |-> [x \in 1..ALPHABET_SIZE |-> 0], is_end |-> TRUE]

\* get_trienode: is_end false, every next pointer NULL (0).
get_trienode == [next |-> [x \in 1..ALPHABET_SIZE |-> 0], is_end |-> FALSE]

\* insert_trie lines 82-92, from loop index level with the current parent.
RECURSIVE InsertFrom(_, _, _, _)
InsertFrom(t, parent, key, level) ==
    IF level >= Len(key) THEN [t EXCEPT ![parent].is_end = TRUE]
    ELSE LET index == CHAR_TO_INDEX(key[level + 1])
             t2 == IF t[parent].next[index + 1] = 0
                   THEN [Append(t, get_trienode) EXCEPT ![parent].next[index + 1] = Len(t) + 1]
                   ELSE t
         IN InsertFrom(t2, t2[parent].next[index + 1], key, level + 1)

\* insert_trie(root, key); the root is node 1.
insert_trie(t, key) == InsertFrom(t, 1, key, 0)

\* The last character fgets(word, size, fp) stores when at characters of the
\* file are consumed: it stops after a newline, after size - 1 characters or
\* at the end of the file.
FgetsEnd(file, at, size) ==
    LET nls == {k \in (at + 1)..Len(file) : file[k] = NL}
        stop == IF nls = {} THEN Len(file) ELSE CHOOSE k \in nls : \A m \in nls : k <= m
    IN IF stop < at + size - 1 THEN stop ELSE at + size - 1

fgets(file, at, size) == SubSeq(file, at + 1, FgetsEnd(file, at, size))

\* fill_trie line 126, and find_words_trie line 356: word[strlen(word) - 1] = '\0'.
ChopLast(w) == SubSeq(w, 1, Len(w) - 1)

\* Dictionary files: every character sequence up to MaxFileLen characters.
DictFiles == UNION { [1..n -> DictChars] : n \in 0..MaxFileLen }

\* ------------------------------------------------------------- actions: trie
\* main lines 410 and 424: the dictionary file is opened and the root created.
OpenDictionary ==
    /\ pc = "open_dictionary"
    /\ dict' \in DictFiles
    /\ fpos' = 0
    /\ trie' = << get_trienode >>
    /\ inserted' = << >>
    /\ pc' = "fill_trie"
    /\ UNCHANGED fillVars
    /\ UNCHANGED searchVars

\* fill_trie lines 124-128: one iteration of the while loop.
FillTrieLine ==
    /\ pc = "fill_trie"
    /\ fpos < Len(dict)
    /\ LET line == fgets(dict, fpos, WORD_SIZE)
           key == ChopLast(line)
       IN /\ trie' = insert_trie(trie, key)
          /\ inserted' = Append(inserted, key)
          /\ fpos' = fpos + Len(line)
    /\ UNCHANGED << pc, dict >>
    /\ UNCHANGED fillVars
    /\ UNCHANGED searchVars

\* fill_trie line 124 at the end of the file (fgets returns NULL), then main
\* lines 429-430 and find_words lines 371-374: the store is created empty and
\* find_words starts at column 0.
FillTrieEof ==
    /\ pc = "fill_trie"
    /\ fpos >= Len(dict)
    /\ store' = << >>
    /\ paths' = << >>
    /\ word' = << >>
    /\ fi' = 0
    /\ fj' = 0
    /\ hc0' = hc.columns
    /\ pc' = "find_words"
    /\ UNCHANGED stack
    /\ UNCHANGED fillVars
    /\ UNCHANGED trieVars

\* ------------------------------------------------------------- search
\* Neighbours with the inner loop of line 346 ending at j < 1.
NeighboursShortLoop == << << -1, -1 >>, << -1, 0 >>, << 0, -1 >>, << 1, -1 >>, << 1, 0 >> >>

\* find_words_trie lines 345-347: the (i, j) pairs of the two loops in order,
\* the pair (0, 0) left out.
Neighbours ==
    << << -1, -1 >>, << -1, 0 >>, << -1, 1 >>, << 0, -1 >>,
       << 0, 1 >>, << 1, -1 >>, << 1, 0 >>, << 1, 1 >> >>

\* The character at C coordinates (column, label).
Cell(cols, column, label) == cols[column + 1][label + 1]

\* Lines 322-323: the coordinate is outside the honeycomb.
OutOfBounds(h, column, label) ==
    IF column < 0 \/ label < 0 \/ column >= h.number_columns
    THEN TRUE
    ELSE label >= Len(h.columns[column + 1])

\* Lines 322-324: the condition under which find_words_trie returns at once.
Sanity(h, w, column, label) ==
    /\ IF OutOfBounds(h, column, label)
       THEN TRUE
       ELSE Cell(h.columns, column, label) = Visited
    /\ Len(w) # 0

\* Line 330: node->next[index] for the character at (column, label).
NextNode(t, node, ch) == t[node].next[CHAR_TO_INDEX(ch) + 1]

\* ClearEnd without the assignment of line 338.
ClearEndKept(t, node) == t

\* Line 338: next_node->is_end = false.
ClearEnd(t, node) == [t EXCEPT ![node].is_end = FALSE]

\* Mark without the assignment of line 343.
MarkNothing(h, column, label) == h

\* Line 343: the cell is overwritten by the sentinel.
Mark(h, column, label) == [h EXCEPT !.columns[column + 1][label + 1] = Visited]

\* Restore without the assignment of line 353.
RestoreNothing(h, column, label, save) == h

\* Line 353: the saved character is written back.
Restore(h, column, label, save) == [h EXCEPT !.columns[column + 1][label + 1] = save]

\* NextLabel without the increment.
NextLabelStuck(j) == j

\* Line 375: j++ once the call of line 377 has returned.
NextLabel(j) == j + 1

\* A frame of find_words_trie at its first statement.
Frame(node, column, label) ==
    [node |-> node, column |-> column, label |-> label, at |-> "entry",
     next_node |-> 0, save |-> Uninit, k |-> 1]

Top == stack[Len(stack)]

\* The coordinates of the active frames, outermost first.
ActivePath(stk) == [d \in 1..Len(stk) |-> << stk[d].column, stk[d].label >>]

\* ------------------------------------------------------------- actions: search
\* find_words lines 374-377: the call for cell (i, j).
FindWordsCall ==
    /\ pc = "find_words"
    /\ stack = << >>
    /\ fi < hc.number_columns
    /\ fj < Len(hc.columns[fi + 1])
    /\ word' = << >>
    /\ stack' = << Frame(1, fi, fj) >>
    /\ UNCHANGED << pc, store, paths, fi, fj, hc0 >>
    /\ UNCHANGED fillVars
    /\ UNCHANGED trieVars

\* find_words lines 374-375: column i is exhausted.
FindWordsNextColumn ==
    /\ pc = "find_words"
    /\ stack = << >>
    /\ fi < hc.number_columns
    /\ fj >= Len(hc.columns[fi + 1])
    /\ fi' = fi + 1
    /\ fj' = 0
    /\ UNCHANGED << pc, store, paths, word, stack, hc0 >>
    /\ UNCHANGED fillVars
    /\ UNCHANGED trieVars

\* find_words lines 374 and 381: the column loop ends and find_words returns.
FindWordsReturn ==
    /\ pc = "find_words"
    /\ stack = << >>
    /\ fi >= hc.number_columns
    /\ pc' = "done"
    /\ UNCHANGED searchVars
    /\ UNCHANGED fillVars
    /\ UNCHANGED trieVars

\* The top frame returns; the return of the outermost frame is followed by
\* the j++ of find_words.
Return ==
    /\ stack' = SubSeq(stack, 1, Len(stack) - 1)
    /\ fj' = IF Len(stack) = 1 THEN NextLabel(fj) ELSE fj

\* find_words_trie lines 322-325: the sanity check fails.
Reject ==
    /\ pc = "find_words"
    /\ stack # << >>
    /\ Top.at = "entry"
    /\ Sanity(hc, word, Top.column, Top.label)
    /\ Return
    /\ UNCHANGED << pc, store, paths, word, fi, hc0 >>
    /\ UNCHANGED fillVars
    /\ UNCHANGED trieVars

\* find_words_trie lines 328-331 and 356: no trie child for the character.
Prune ==
    /\ pc = "find_words"
    /\ stack # << >>
    /\ Top.at = "entry"
    /\ ~Sanity(hc, word, Top.column, Top.label)
    /\ LET ch == Cell(hc.columns, Top.column, Top.label)
       IN /\ NextNode(trie, Top.node, ch) = 0
          /\ word' = ChopLast(Append(word, ch))
    /\ Return
    /\ UNCHANGED << pc, store, paths, fi, hc0 >>
    /\ UNCHANGED fillVars
    /\ UNCHANGED trieVars

\* find_words_trie lines 328-344: the character is appended, the word stored
\* when the child ends a word, and the cell marked.
Enter ==
    /\ pc = "find_words"
    /\ stack # << >>
    /\ Top.at = "entry"
    /\ ~Sanity(hc, word, Top.column, Top.label)
    /\ LET ch == Cell(hc.columns, Top.column, Top.label)
           next_node == NextNode(trie, Top.node, ch)
           w == Append(word, ch)
       IN /\ next_node # 0
          /\ word' = w
          /\ IF trie[next_node].is_end
             THEN /\ store' = Append(store, w)
                  /\ paths' = Append(paths, ActivePath(stack))
                  /\ trie' = ClearEnd(trie, next_node)
             ELSE UNCHANGED << store, paths, trie >>
          /\ hc' = Mark(hc, Top.column, Top.label)
          /\ stack' = [stack EXCEPT ![Len(stack)] =
                          [@ EXCEPT !.at = "loop", !.next_node = next_node, !.save = ch]]
    /\ UNCHANGED << pc, fi, fj, hc0 >>
    /\ UNCHANGED << layers, input, rpos, center, rightlayers, leftlayers, shadow, writes >>
    /\ UNCHANGED << dict, fpos, inserted >>

\* find_words_trie lines 345-351: the next recursive call.
Recurse ==
    /\ pc = "find_words"
    /\ stack # << >>
    /\ Top.at = "loop"
    /\ Top.k <= Len(Neighbours)
    /\ stack' = Append([stack EXCEPT ![Len(stack)].k = @ + 1],
                       Frame(Top.next_node,
                             Top.column + Neighbours[Top.k][1],
                             Top.label + Neighbours[Top.k][2]))
    /\ UNCHANGED << pc, store, paths, word, fi, fj, hc0 >>
    /\ UNCHANGED fillVars
    /\ UNCHANGED trieVars

\* find_words_trie lines 353-357: the cell is restored, the character removed
\* from the word and the frame returns.
Leave ==
    /\ pc = "find_words"
    /\ stack # << >>
    /\ Top.at = "loop"
    /\ Top.k > Len(Neighbours)
    /\ hc' = Restore(hc, Top.column, Top.label, Top.save)
    /\ word' = ChopLast(word)
    /\ Return
    /\ UNCHANGED << pc, store, paths, fi, hc0 >>
    /\ UNCHANGED << layers, input, rpos, center, rightlayers, leftlayers, shadow, writes >>
    /\ UNCHANGED trieVars

Init ==
    /\ pc = "main"
    /\ layers = 0
    /\ input = << >>
    /\ rpos = 0
    /\ center = << >>
    /\ rightlayers = << >>
    /\ leftlayers = << >>
    /\ hc = [number_columns |-> 0, columns |-> << >>]
    /\ shadow = [center |-> << >>, right |-> << >>, left |-> << >>, columns |-> << >>]
    /\ writes = << >>
    /\ dict = << >>
    /\ fpos = 0
    /\ trie = << >>
    /\ inserted = << >>
    /\ store = << >>
    /\ paths = << >>
    /\ word = << >>
    /\ stack = << >>
    /\ fi = 0
    /\ fj = 0
    /\ hc0 = << >>

\* main: the honeycomb is built, then the trie, then find_words runs.
Next ==
    \/ Recurse
    \/ Reject
    \/ Prune
    \/ Enter
    \/ Leave
    \/ FindWordsCall
    \/ FindWordsNextColumn
    \/ FindWordsReturn
    \/ FillTrieLine
    \/ FillTrieEof
    \/ OpenDictionary
    \/ CreateHoneycomb
    \/ ReadCenter
    \/ ReadRing
    \/ StoreLeft
    \/ StoreRight
    \/ FinishFill

Spec == Init /\ [][Next]_vars

\* main up to the return of fill_honeycomb, for larger honeycombs.
GridNext ==
    \/ CreateLargeHoneycomb
    \/ ReadCenter
    \/ ReadRing
    \/ StoreLeft
    \/ StoreRight
    \/ FinishFill

GridSpec == Init /\ [][GridNext]_vars

\* The program runs on: a step is taken whenever one is possible.
FairSpec == Init /\ [][Next]_vars /\ WF_vars(Next)

\* ------------------------------------------------------------- properties
Range(f) == { f[x] : x \in DOMAIN f }

\* fill_honeycomb has returned.
Filled ==
    pc \notin {"main", "fill_center", "fill_ring", "store_left", "store_right", "fill_finish"}

\* find_words has been called (and may have returned).
Searching == pc \in {"find_words", "done"}

\* The cells of a columns array, as C coordinates.
Cells(cols) == UNION { { << c - 1, p - 1 >> : p \in DOMAIN cols[c] } : c \in DOMAIN cols }

CellCount(cols) == SumTo([c \in DOMAIN cols |-> Len(cols[c])], Len(cols))

\* Two coordinates differ by at most 1 in column and in offset, not both 0.
Adjacent(a, b) == a # b /\ Abs(a[1] - b[1]) <= 1 /\ Abs(a[2] - b[2]) <= 1

\* The node reached from node along the symbols of S, 0 when a child is missing.
RECURSIVE Descend(_, _, _)
Descend(t, node, S) ==
    IF S = << >> THEN node
    ELSE LET child == t[node].next[CHAR_TO_INDEX(Head(S)) + 1]
         IN IF child = 0 THEN 0 ELSE Descend(t, child, Tail(S))

\* S is a word of the trie: the descent from the root ends at a node with is_end.
InTrie(t, S) == Descend(t, 1, S) # 0 /\ t[Descend(t, 1, S)].is_end

\* The lines of a file: the characters between line terminators, a last
\* line without terminator included.
RECURSIVE Lines(_)
Lines(f) ==
    IF f = << >> THEN << >>
    ELSE LET nls == {k \in DOMAIN f : f[k] = NL}
             e == IF nls = {} THEN Len(f) + 1 ELSE CHOOSE k \in nls : \A m \in nls : k <= m
         IN << SubSeq(f, 1, e - 1) >> \o Lines(SubSeq(f, e + 1, Len(f)))

\* Symbol sequences over the dictionary's letters, up to MaxFileLen long.
Words == UNION { [1..n -> DictChars \ {NL}] : n \in 0..MaxFileLen }

\* The rest of w from its k-th symbol on is spelled by a path that starts at
\* cell, moves between adjacent cells and avoids the cells in used.
RECURSIVE SpelledFrom(_, _, _, _, _)
SpelledFrom(cols, w, k, cell, used) ==
    /\ Cell(cols, cell[1], cell[2]) = w[k]
    /\ IF k = Len(w) THEN TRUE
       ELSE \E nxt \in Cells(cols) \ (used \cup {cell}) :
               /\ Adjacent(cell, nxt)
               /\ SpelledFrom(cols, w, k + 1, nxt, used \cup {cell})

\* w is spelled by some path of pairwise distinct adjacent cells.
Spelled(cols, w) == \E cell \in Cells(cols) : SpelledFrom(cols, w, 1, cell, {})

\* w is a proper prefix of v.
ProperPrefix(w, v) == Len(w) < Len(v) /\ SubSeq(v, 1, Len(w)) = w

C2_Soundness ==
    Searching => \A k \in DOMAIN store : store[k] \in Range(Lines(dict))

\* C3: every stored word was stored while the active path spelled it, and
\* that path consists of in-bounds cells, none repeated, consecutive ones
\* adjacent.
C3_PathValid ==
    Searching =>
        /\ Len(paths) = Len(store)
        /\ \A k \in DOMAIN store :
              LET path == paths[k]
              IN /\ Len(path) = Len(store[k])
                 /\ \A d \in DOMAIN path :
                       /\ path[d] \in Cells(hc0)
                       /\ Cell(hc0, path[d][1], path[d][2]) = store[k][d]
                 /\ \A d, e \in DOMAIN path : path[d] = path[e] => d = e
                 /\ \A d \in 1..(Len(path) - 1) : Adjacent(path[d], path[d + 1])

\* A word of several symbols has been stored.
C3_Witness == \E k \in DOMAIN store : Len(store[k]) >= 2 /\ Len(paths[k]) >= 2

\* C4: whenever no find_words_trie frame is active, and so when find_words
\* has returned, every cell holds the character it held when find_words was
\* called: no sentinel is left and no column length has changed.
C4_GridRestored ==
    (Searching /\ stack = << >>) =>
        /\ hc.columns = hc0
        /\ \A c \in DOMAIN hc.columns :
              /\ Len(hc.columns[c]) = Len(hc0[c])
              /\ \A p \in DOMAIN hc.columns[c] : hc.columns[c][p] # Visited

\* The search is over, words were stored (cells were marked) on a honeycomb with rings.
C4_Witness == pc = "done" /\ Len(store) >= 2 /\ layers >= 2 /\ Len(store[2]) >= 2

\* C5: the store never holds a word twice, and the trie node of a stored
\* word has its is_end flag cleared.
C5_AtMostOnce ==
    Searching =>
        /\ \A a, b \in DOMAIN store : store[a] = store[b] => a = b
        /\ \A k \in DOMAIN store : ~InTrie(trie, store[k])

\* A frame has entered a cell on a path that spells an already stored word
\* and differs from the path the word was stored on.
C5_Witness ==
    /\ pc = "find_words"
    /\ stack # << >>
    /\ Top.at = "loop"
    /\ \E k \in DOMAIN store : store[k] = word /\ paths[k] # ActivePath(stack)

\* C6: after create_honeycomb and fill_honeycomb there are 2*layers - 1
\* columns, and column i has length 2*layers - 1 - |i - (layers - 1)|.
C6_GridShape ==
    Filled =>
        /\ hc.number_columns = 2 * layers - 1
        /\ Len(hc.columns) = 2 * layers - 1
        /\ \A i \in 0..(2 * layers - 2) :
              Len(hc.columns[i + 1]) = 2 * layers - 1 - Abs(i - (layers - 1))

\* A honeycomb of at least three layers has been filled.
C6_Witness == pc = "open_dictionary" /\ layers >= 3

\* C7: while the trie is built, the descent along a symbol sequence S ends
\* at a node with is_end set exactly if S is one of the inserted keys.
C7_TrieMembership ==
    pc = "fill_trie" => \A S \in Words : InTrie(trie, S) <=> S \in Range(inserted)

\* Two keys were inserted, the later a proper prefix of the earlier.
C7_Witness ==
    /\ pc = "fill_trie"
    /\ Len(inserted) >= 2
    /\ ProperPrefix(inserted[2], inserted[1])
    /\ inserted[2] # << >>

\* C8: when fill_trie has returned, the keys it inserted are the lines of
\* the dictionary file, in order, each without its line terminator.
C8_LinesInserted == Searching => inserted = Lines(dict)

\* The order in which main() passes through its positions.
PhaseIndex ==
    CASE pc = "main" -> 0
      [] pc = "fill_center" -> 1
      [] pc = "fill_ring" -> 2
      [] pc = "store_left" -> 3
      [] pc = "store_right" -> 4
      [] pc = "fill_finish" -> 5
      [] pc = "open_dictionary" -> 6
      [] pc = "fill_trie" -> 7
      [] pc = "find_words" -> 8
      [] pc = "done" -> 9

\* How far the frame at depth d has come: a frame at its first statement
\* counts 1, a frame in its loop 3k before its k-th call and 3k+1 during it.
FrameProgress(d) ==
    IF stack[d].at = "entry" THEN 1
    ELSE IF d = Len(stack) THEN 3 * stack[d].k ELSE 3 * stack[d].k - 2

\* How far the program has come: the position in main, the rings read, the
\* dictionary characters read, the loop variables of find_words and the
\* progress of every active frame, outermost first.
Progress ==
    << PhaseIndex, Len(rightlayers), fpos, fi, fj >> \o
    [d \in 1..Len(stack) |-> FrameProgress(d)]

\* a comes before b in the lexicographic order; a missing component counts 0.
RECURSIVE LexLessFrom(_, _, _)
LexLessFrom(a, b, x) ==
    LET av == IF x <= Len(a) THEN a[x] ELSE 0
        bv == IF x <= Len(b) THEN b[x] ELSE 0
    IN IF x > Len(a) /\ x > Len(b) THEN FALSE
       ELSE IF av # bv THEN av < bv
       ELSE LexLessFrom(a, b, x + 1)

LexLess(a, b) == LexLessFrom(a, b, 1)

\* Every component of Progress stays within a range the inputs fix.
ProgressBounded ==
    /\ Len(rightlayers) <= layers
    /\ fpos <= Len(dict)
    /\ fi <= hc.number_columns
    /\ fj <= 2 * layers
    /\ \A d \in DOMAIN stack : stack[d].k <= Len(Neighbours) + 1

\* C9: find_words returns: every step moves the program strictly forward in
\* a bounded lexicographic order, and a step is possible until find_words
\* has returned; the chain of find_words_trie frames is never longer than
\* the number of cells plus one.
C9_Termination ==
    /\ [][LexLess(Progress, Progress')]_vars
    /\ [](ProgressBounded)
    /\ [](pc = "done" \/ ENABLED Next)
    /\ [](Len(stack) <= CellCount(hc.columns) + 1)

\* C9, as a liveness property of FairSpec: find_words eventually returns.
C9_EventuallyReturns == <>(pc = "done")

\* The chain is as long as the claim allows.
C9_Witness == stack # << >> /\ Len(stack) = CellCount(hc.columns) + 1

\* C10: when fill_honeycomb returns every cell was written exactly once, every
\* symbol of the input was consumed and sits in exactly one cell, and every
\* cell holds the input symbol of its position.
C10_Bijection ==
    pc = "open_dictionary" =>
        /\ rpos = Len(input)
        /\ \A c \in DOMAIN writes : \A p \in DOMAIN writes[c] : writes[c][p] = 1
        /\ \A k \in 1..Len(input) :
              Cardinality({cell \in Cells(shadow.columns) :
                              Cell(shadow.columns, cell[1], cell[2]) = k}) = 1
        /\ \A cell \in Cells(hc.columns) :
              /\ cell \in Cells(shadow.columns)
              /\ Cell(shadow.columns, cell[1], cell[2]) \in 1..Len(input)
              /\ Cell(hc.columns, cell[1], cell[2]) =
                     input[Cell(shadow.columns, cell[1], cell[2])]

\* A honeycomb of at least three layers has been filled, its first and last
\* column with different symbols.
C10_Witness == pc = "open_dictionary" /\ layers >= 3 /\ hc.columns[1] # hc.columns[2 * layers - 1]
====
